---------------------------- MODULE Spec2Model ----------------------------
(***************************************************************************)
(* sshs: terminal host picker for ssh.  The repository holds several       *)
(* generations of the same program.  Modelled here:                        *)
(*                                                                         *)
(*   - the termui event loop (cmd.run, src/unnamed/part_000): the table    *)
(*     rows, the search string and the selected index are locals of run;   *)
(*   - the tview HostsTable (ui.NewHostsTable / Filter / Generate /        *)
(*     connect, src/unnamed/part_007 lines 272-563) and the flex that      *)
(*     holds it (MultiFocusFlex, src/unnamed/part_006);                    *)
(*   - the bubbletea display, its startup and ssh.Run (src/cmd/root.go     *)
(*     lines 118-258, src/internal).                                       *)
(*                                                                         *)
(* Go strings are TLA+ strings; the standard-library calls the code makes  *)
(* (strings.ToLower, strings.Contains, strings.Join, strconv.Itoa,         *)
(* fmt.Sprintf("%v")) are operators that compute what the call computes.   *)
(***************************************************************************)
EXTENDS Integers, Sequences, FiniteSets, TLC

VARIABLES
    hosts,              \* the parsed configuration entries ([]*sshconfig.SSHHost)
    displayFullProxy,   \* the --proxy flag
    pc,                 \* where the program is: "loop", "quit", "exec", "panic"
    child,              \* argv of the child process started, <<>> when none
    \* ---- termui event loop (part_000, run) ----
    rows,               \* rows := table.Rows[1:], every host row, padded
    tableRows,          \* table.Rows: the header row, then the visible rows
    search,             \* search
    previousSearch,     \* previousSearch
    selectedHost,       \* selectedHost
    downRun,            \* observer: <Down> events processed in a row
    runStart,           \* observer: selectedHost when that run started
    \* ---- tview HostsTable (part_007) ----
    sortFlag,           \* the --sort flag
    Hosts,              \* HostsTable.Hosts
    filter,             \* HostsTable.filter
    cells,              \* the tview table's cell texts, row 0 first
    selectedRow,        \* the tview table's selected row
    \* ---- bubbletea display and ssh.Run (root.go 118-258, internal/) ----
    terminal,           \* "shell" before the program draws, "ui" while it
                        \* does, "released" once it has given the terminal
                        \* up, "restored" at its end
    exitAfterSessionEnds,    \* the --exit flag
    additionalSSHArguments,  \* the --ssh-arguments flag
    items,              \* the list's items (components.ListItem)
    cursor,             \* index of the list's selected item
    started,            \* child processes started so far
    childStatus,        \* exit status of the last child, NoStatus before
    exitCode,           \* the tool's exit status, NoStatus while it runs
    \* ---- the command line and the file system ----
    configFlag,         \* the --config flag
    configFile,         \* the file at the resolved config path
    searchFilter,       \* the --search flag of root.go's run
    sshCommandPattern,  \* the command pattern handed to connect (part_007)
    \* ---- MultiFocusFlex (part_006) ----
    flexItems,          \* MultiFocusFlex.items
    delivered,          \* the calls of item handlers made so far, in order
    flexCalls           \* observer: the calls made on the flex so far

sharedVars == <<hosts, displayFullProxy, pc, child, terminal>>
termuiVars == <<rows, tableRows, search, previousSearch, selectedHost,
                downRun, runStart>>
tviewVars  == <<sortFlag, Hosts, filter, cells, selectedRow>>
sessionVars == <<exitAfterSessionEnds, additionalSSHArguments, items, cursor,
                 started, childStatus, exitCode>>
startupVars == <<configFlag, configFile, searchFilter, sshCommandPattern>>
flexVars   == <<flexItems, delivered, flexCalls>>
vars       == <<sharedVars, termuiVars, tviewVars, sessionVars, startupVars, flexVars>>

-----------------------------------------------------------------------------
(* Bounds of the model.                                                    *)

MaxHosts == 2       \* entries in the configuration file
MaxSearch == 2      \* characters typed into the search box
MaxLaunches == 2    \* sessions opened in one run of the program
MaxStatus == 3      \* the largest exit status a child ends with
MaxCalls == 4       \* calls made on one MultiFocusFlex

-----------------------------------------------------------------------------
(* Go strings.                                                             *)

UpperLetters == "ABCDEFGHIJKLMNOPQRSTUVWXYZ"
LowerLetters == "abcdefghijklmnopqrstuvwxyz"
Digits == "0123456789"

CharAt(s, i) == SubSeq(s, i, i)

Chars(s) == {CharAt(s, i) : i \in 1..Len(s)}

\* the lower-case letter of each upper-case letter
LowerOf ==
    [c \in {CharAt(UpperLetters, i) : i \in 1..Len(UpperLetters)} |->
        CharAt(LowerLetters,
               CHOOSE i \in 1..Len(UpperLetters) : CharAt(UpperLetters, i) = c)]

ToLowerChar(c) == IF c \in DOMAIN LowerOf THEN LowerOf[c] ELSE c

RECURSIVE ToLower(_)
ToLower(s) ==
    IF s = "" THEN "" ELSE ToLowerChar(CharAt(s, 1)) \o ToLower(Tail(s))

\* strings.Contains(s, substr)
Contains(s, substr) ==
    \E i \in 1..(Len(s) - Len(substr) + 1) :
        SubSeq(s, i, i + Len(substr) - 1) = substr

\* strings.Join(elems, " ")
RECURSIVE Join(_)
Join(elems) ==
    IF Len(elems) = 0 THEN ""
    ELSE IF Len(elems) = 1 THEN elems[1]
    ELSE elems[1] \o " " \o Join(Tail(elems))

\* strconv.Itoa, for the non-negative ports of a configuration
RECURSIVE Itoa(_)
Itoa(n) ==
    IF n < 10 THEN CharAt(Digits, n + 1)
    ELSE Itoa(n \div 10) \o CharAt(Digits, (n % 10) + 1)

IsSpace(c) == c \in {" ", "\t", "\n", "\r"}

RECURSIVE TrimLeft(_)
TrimLeft(s) ==
    IF s # "" /\ IsSpace(CharAt(s, 1)) THEN TrimLeft(Tail(s)) ELSE s

RECURSIVE TrimRight(_)
TrimRight(s) ==
    IF s # "" /\ IsSpace(CharAt(s, Len(s)))
    THEN TrimRight(SubSeq(s, 1, Len(s) - 1)) ELSE s

\* strings.TrimSpace
TrimSpace(s) == TrimRight(TrimLeft(s))

\* Go's % truncates toward zero: the result has the sign of the dividend.
GoRem(a, b) == IF a >= 0 THEN a % b ELSE -((-a) % b)

Range(f) == {f[i] : i \in DOMAIN f}

-----------------------------------------------------------------------------
(* The parsed configuration: sshconfig.SSHHost values.  Port is 22 when    *)
(* the entry has no Port line (the parser's default).                      *)

SSHHost(patterns, hostName, user, port, proxyCommand) ==
    [Host |-> patterns, HostName |-> hostName, User |-> user, Port |-> port,
     ProxyCommand |-> proxyCommand]

EWebQuoted == SSHHost(<<"\"Web\"">>, "w.io", "root", 22, "")
EGateway   == SSHHost(<<"gate">>, "", "", 22, "ssh -W b")
EWebLower  == SSHHost(<<"web">>, "b.io", "", 2222, "")
EWildcard  == SSHHost(<<"*">>, "", "", 22, "")
ESelf      == SSHHost(<<"a.io">>, "", "", 22, "")
EPairLeft  == SSHHost(<<"a", "b">>, "c", "", 22, "d")
EPairRight == SSHHost(<<"a">>, "", "b", 22, "c d")
ENested    == SSHHost(<<"\"\"x\"\"">>, "x.io", "", 22, "")
EQuoteOnly == SSHHost(<<"\"">>, "h", "", 22, "")
EEmptyQuoted == SSHHost(<<"\"\"">>, "h", "", 22, "")
ENoPattern == SSHHost(<<>>, "h", "", 22, "")
EUnbalanced == SSHHost(<<"\"ab">>, "h", "", 22, "")
EIPAlias   == SSHHost(<<"10.0.0.1">>, "", "", 22, "")

\* All sequences over S of length at most n.
SeqsUpTo(S, n) == UNION {[1..k -> S] : k \in 0..n}

-----------------------------------------------------------------------------
(* cmd.run, the termui generation (src/unnamed/part_000).                  *)

\* no exit status: the process has not ended
NoStatus == -1

\* the bubbletea display's state, in the generations that have none
NoSession ==
    /\ exitAfterSessionEnds = FALSE
    /\ additionalSSHArguments = ""
    /\ items = <<>>
    /\ cursor = 0
    /\ started = 0
    /\ childStatus = NoStatus
    /\ exitCode = NoStatus

\* a file that was read
FileOf(entries) == [state |-> "present", entries |-> entries]

\* the command line and the file system of a program already constructed:
\* the configuration was read from the file named by --config
\* the flex, in the generations that have none
NoFlex ==
    /\ flexItems = <<>>
    /\ delivered = <<>>
    /\ flexCalls = <<>>

NoStartup ==
    /\ configFlag = "cfg"
    /\ configFile = FileOf(hosts)
    /\ searchFilter = ""
    /\ sshCommandPattern = ""

TermuiEntries == {EWebQuoted, EGateway, EWebLower, EWildcard}
TermuiSeeds == {"", "w"}
TermuiKeys == {"w", "B"}
ConfigPath == "cfg"

\* lines 84 and 115-119: the header row, padded like every row
HeaderRow == <<" Hostname", " User", " Target", " Port">>

\* lines 105-109: the display name of an entry; indexing name[0] panics on
\* an empty name and name[1:0] panics on a name that is one double quote
NamePanics(host) ==
    LET name == Join(host.Host)
    IN  \/ name = ""
        \/ name = "\""

StripQuotes(name) ==
    IF CharAt(name, 1) = "\"" /\ CharAt(name, Len(name)) = "\""
    THEN SubSeq(name, 2, Len(name) - 1)
    ELSE name

\* RowTarget that shows the proxy command whatever the --proxy flag says
RowTargetFullProxy(host, dfp) ==
    IF host.HostName # "" THEN host.HostName ELSE host.ProxyCommand

\* lines 92-103: the target column, "" when the entry is skipped
RowTarget(host, dfp) ==
    IF host.HostName # "" THEN host.HostName
    ELSE IF host.ProxyCommand = "" THEN ""
    ELSE IF dfp THEN host.ProxyCommand
    ELSE "(Proxy)"

RowSkipped(host) == host.HostName = "" /\ host.ProxyCommand = ""

\* lines 111 and 115-119: the row of an entry, every cell padded on the left
PaddedRow(host, dfp) ==
    <<" " \o StripQuotes(Join(host.Host)), " " \o host.User,
      " " \o RowTarget(host, dfp), " " \o Itoa(host.Port)>>

\* lines 91-113: the rows of the table, in the order of the file
RECURSIVE BuildRows(_, _)
BuildRows(hs, dfp) ==
    IF Len(hs) = 0 THEN <<>>
    ELSE IF RowSkipped(Head(hs)) THEN BuildRows(Tail(hs), dfp)
    ELSE <<PaddedRow(Head(hs), dfp)>> \o BuildRows(Tail(hs), dfp)

BuildPanics(hs) ==
    \E i \in 1..Len(hs) : ~RowSkipped(hs[i]) /\ NamePanics(hs[i])

\* RowMatches with its condition inverted
RowMatchesInverted(row, searchLowerCase) ==
    ~(\/ Contains(ToLower(row[1]), searchLowerCase)
      \/ Contains(ToLower(row[3]), searchLowerCase))

\* line 174: the test filterRows makes on a row
RowMatches(row, searchLowerCase) ==
    \/ Contains(ToLower(row[1]), searchLowerCase)
    \/ Contains(ToLower(row[3]), searchLowerCase)

\* lines 164-184: filterRows, as the new value of table.Rows
filterRows(allRows, s) ==
    IF Len(s) > 0
    THEN <<HeaderRow>> \o SelectSeq(allRows, LAMBDA row : RowMatches(row, ToLower(s)))
    ELSE <<HeaderRow>> \o allRows

\* ClampSelection without lines 250-251: a negative remainder is kept
ClampSelectionNoWrap(newSelectedHost, maxHosts, lenRows) ==
    IF maxHosts > 0 THEN GoRem(newSelectedHost, maxHosts) ELSE 0

\* ClampSelection stopping at the last row instead of wrapping to the first
ClampSelectionSaturating(newSelectedHost, maxHosts, lenRows) ==
    IF maxHosts <= 0 THEN 0
    ELSE IF newSelectedHost >= maxHosts THEN maxHosts - 1
    ELSE IF newSelectedHost < 0 THEN maxHosts - 1
    ELSE newSelectedHost

\* ClampSelection taking the remainder by len(rows), not by the visible count
ClampSelectionAllRows(newSelectedHost, maxHosts, lenRows) ==
    LET wrapped == IF lenRows > 0 THEN GoRem(newSelectedHost, lenRows) ELSE 0
    IN  IF wrapped < 0 THEN wrapped + lenRows ELSE wrapped

\* lines 242-254: the selected index after an event
ClampSelection(newSelectedHost, maxHosts, lenRows) ==
    LET wrapped == IF maxHosts > 0 THEN GoRem(newSelectedHost, maxHosts) ELSE 0
    IN  IF wrapped < 0 THEN wrapped + maxHosts
        ELSE IF wrapped >= lenRows THEN wrapped - maxHosts
        ELSE wrapped

\* RowsAfterFilter had line 164 been table.Rows = table.Rows[:1]: the appends
\* of filterRows would write into the array that rows is a slice of
RowsAfterFilterInPlace(allRows, newTable) ==
    [i \in 1..Len(allRows) |->
        IF i + 1 <= Len(newTable) THEN newTable[i + 1] ELSE allRows[i]]

\* lines 159 and 164: rows is a slice of the first table.Rows, and
\* filterRows builds the new table.Rows in a fresh array, so that rows is
\* what it was
RowsAfterFilter(allRows, newTable) == allRows

\* LoopTail with the selection put back on the first row by every event
\* that is not a move
LoopTailResetting(newSelectedHost, newSearch) ==
    LET newTable == IF previousSearch # newSearch
                    THEN filterRows(rows, newSearch)
                    ELSE tableRows
    IN  /\ search' = newSearch
        /\ previousSearch' = newSearch
        /\ tableRows' = newTable
        /\ rows' = rows
        /\ selectedHost' = IF newSelectedHost = selectedHost THEN 0
                           ELSE ClampSelection(newSelectedHost, Len(newTable) - 1,
                                               Len(rows))
        /\ UNCHANGED <<sharedVars, tviewVars, sessionVars, startupVars, flexVars>>

\* lines 237-260: what every event ends with
LoopTail(newSelectedHost, newSearch) ==
    LET newTable == IF previousSearch # newSearch
                    THEN filterRows(rows, newSearch)
                    ELSE tableRows
    IN  /\ search' = newSearch
        /\ previousSearch' = newSearch
        /\ tableRows' = newTable
        /\ rows' = IF previousSearch # newSearch
                   THEN RowsAfterFilter(rows, newTable) ELSE rows
        /\ selectedHost' = ClampSelection(newSelectedHost, Len(newTable) - 1, Len(rows))
        /\ UNCHANGED <<sharedVars, tviewVars, sessionVars, startupVars, flexVars>>

\* the observer of <Down> runs
NoteDown ==
    /\ downRun' = IF downRun <= Len(rows) THEN downRun + 1 ELSE downRun
    /\ runStart' = runStart

NoteOther ==
    /\ downRun' = 0
    /\ runStart' = selectedHost'

\* line 199
EvCtrlC ==
    /\ pc = "loop"
    /\ pc' = "quit"
    /\ terminal' = "released"
    /\ UNCHANGED <<hosts, displayFullProxy, child, termuiVars, tviewVars, sessionVars, startupVars, flexVars>>

\* lines 201-204 and 21-33: table.Rows[selectedHost+1] panics past the end
EvEnter ==
    /\ pc = "loop"
    /\ IF selectedHost + 1 >= Len(tableRows)
       THEN pc' = "panic" /\ child' = child
       ELSE /\ pc' = "exec"
            /\ child' = <<"ssh", "-F", ConfigPath,
                          TrimSpace(tableRows[selectedHost + 2][1])>>
    /\ terminal' = "released"
    /\ UNCHANGED <<hosts, displayFullProxy, termuiVars, tviewVars, sessionVars, startupVars, flexVars>>

\* lines 205-218
EvResize ==
    /\ pc = "loop"
    /\ LoopTail(selectedHost, search)
    /\ NoteOther

\* lines 219-220
EvDown ==
    /\ pc = "loop"
    /\ LoopTail(selectedHost + 1, search)
    /\ NoteDown

\* lines 221-222
EvUp ==
    /\ pc = "loop"
    /\ LoopTail(selectedHost - 1, search)
    /\ NoteOther

\* lines 223-226
EvBackspace ==
    /\ pc = "loop"
    /\ LoopTail(selectedHost,
                IF Len(search) > 0 THEN SubSeq(search, 1, Len(search) - 1) ELSE search)
    /\ NoteOther

\* lines 227-228
EvSpace ==
    /\ pc = "loop"
    /\ Len(search) < MaxSearch
    /\ LoopTail(selectedHost, search \o " ")
    /\ NoteOther

\* lines 229-230
EvCtrlU ==
    /\ pc = "loop"
    /\ LoopTail(selectedHost, "")
    /\ NoteOther

\* lines 231-234: a key whose ID is one character
EvKey ==
    /\ pc = "loop"
    /\ Len(search) < MaxSearch
    /\ \E key \in TermuiKeys : LoopTail(selectedHost, search \o key)
    /\ NoteOther

\* lines 231-234: any other event ID, such as <Tab>
EvIgnored ==
    /\ pc = "loop"
    /\ LoopTail(selectedHost, search)
    /\ NoteOther

\* lines 46-191: run up to the event loop
InitTermuiFrom(hs, dfp, seed) ==
    /\ hosts = hs
    /\ displayFullProxy = dfp
    /\ child = <<>>
    /\ terminal = IF BuildPanics(hs) THEN "released" ELSE "ui"
    /\ NoSession
    /\ NoStartup
    /\ NoFlex
    /\ IF BuildPanics(hs)
       THEN /\ pc = "panic"
            /\ rows = <<>>
            /\ tableRows = <<>>
            /\ search = ""
       ELSE /\ pc = "loop"
            /\ rows = BuildRows(hs, dfp)
            /\ tableRows = IF seed # "" THEN filterRows(BuildRows(hs, dfp), seed)
                           ELSE <<HeaderRow>> \o BuildRows(hs, dfp)
            /\ search = seed
    /\ previousSearch = ""
    /\ selectedHost = 0
    /\ downRun = 0
    /\ runStart = 0
    /\ sortFlag = FALSE
    /\ Hosts = <<>>
    /\ filter = ""
    /\ cells = <<>>
    /\ selectedRow = 0

InitTermui ==
    \E hs \in SeqsUpTo(TermuiEntries, MaxHosts), dfp \in BOOLEAN, seed \in TermuiSeeds :
        InitTermuiFrom(hs, dfp, seed)

\* configurations of three entries that all have a row
ThreeRowLists ==
    {<<EWebQuoted, EGateway, EWebLower>>, <<EGateway, EWebQuoted, EWebLower>>,
     <<EWebLower, EWebQuoted, EGateway>>}

InitThreeRows ==
    \E hs \in ThreeRowLists, dfp \in BOOLEAN, seed \in TermuiSeeds :
        InitTermuiFrom(hs, dfp, seed)

NextTermui ==
    \/ EvCtrlC
    \/ EvEnter
    \/ EvResize
    \/ EvDown
    \/ EvUp
    \/ EvBackspace
    \/ EvSpace
    \/ EvCtrlU
    \/ EvKey
    \/ EvIgnored

SpecTermui == InitTermui /\ [][NextTermui]_vars

\* the event loop over a table of three rows
SpecThreeRows == InitThreeRows /\ [][NextTermui]_vars

-----------------------------------------------------------------------------
(* ui.HostsTable, the tview generation (src/unnamed/part_007, 272-563).    *)

\* The bytes the names of the model are made of, in ASCII order: the order
\* Go compares strings in.
Ascii == " \"()*-.0123456789ABCDEFGHIJKLMNOPQRSTUVWXYZ_abcdefghijklmnopqrstuvwxyz"

Code(c) == CHOOSE i \in 1..Len(Ascii) : CharAt(Ascii, i) = c

\* a < b on Go strings
RECURSIVE StringLess(_, _)
StringLess(a, b) ==
    IF b = "" THEN FALSE
    ELSE IF a = "" THEN TRUE
    ELSE IF CharAt(a, 1) = CharAt(b, 1) THEN StringLess(Tail(a), Tail(b))
    ELSE Code(CharAt(a, 1)) < Code(CharAt(b, 1))

\* The labels of a name: the pieces between its dots.
RECURSIVE SplitDots(_, _)
SplitDots(s, label) ==
    IF s = "" THEN <<label>>
    ELSE IF CharAt(s, 1) = "." THEN <<label>> \o SplitDots(Tail(s), "")
    ELSE SplitDots(Tail(s), label \o CharAt(s, 1))

DNSFirstChars == Chars(UpperLetters) \cup Chars(LowerLetters) \cup Chars(Digits) \cup {"_"}
DNSRestChars == DNSFirstChars \cup {"-"}

DNSLabel(label) ==
    /\ Len(label) \in 1..63
    /\ CharAt(label, 1) \in DNSFirstChars
    /\ \A i \in 2..Len(label) : CharAt(label, i) \in DNSRestChars

\* govalidator's DNSName pattern: labels joined by dots, then at most one
\* more "." or "_"
MatchesDNSName(str) ==
    LET body == IF str # "" /\ CharAt(str, Len(str)) = "."
                THEN SubSeq(str, 1, Len(str) - 1) ELSE str
        labels == SplitDots(body, "")
    IN  \A i \in 1..Len(labels) : DNSLabel(labels[i])

RECURSIVE Atoi(_)
Atoi(s) ==
    IF s = "" THEN 0
    ELSE 10 * Atoi(SubSeq(s, 1, Len(s) - 1))
         + (CHOOSE d \in 0..9 : CharAt(Digits, d + 1) = CharAt(s, Len(s)))

\* net.ParseIP on a dotted quad (no entry of the model holds a ':', which
\* every IPv6 literal does)
IsIP(str) ==
    LET labels == SplitDots(str, "")
    IN  /\ Len(labels) = 4
        /\ \A i \in 1..4 :
              /\ Len(labels[i]) \in 1..3
              /\ Chars(labels[i]) \subseteq Chars(Digits)
              /\ Atoi(labels[i]) <= 255

\* valid.IsDNSName
IsDNSName(str) ==
    /\ str # ""
    /\ Len(SelectSeq([i \in 1..Len(str) |-> CharAt(str, i)], LAMBDA c : c # ".")) <= 255
    /\ ~IsIP(str)
    /\ MatchesDNSName(str)

\* ui.Host
Host(name, user, hostName, proxyCommand, port) ==
    [Name |-> name, User |-> user, HostName |-> hostName,
     ProxyCommand |-> proxyCommand, Port |-> port]

\* lines 358-363: asSha256 is the SHA-256 of fmt.Sprintf("%v", o), and "%v"
\* prints a struct as its field values between braces, one space between
\* two fields.  Two digests are equal exactly when the printed texts are.
asSha256(o) ==
    "{" \o o.Name \o " " \o o.User \o " " \o o.HostName \o " " \o o.ProxyCommand
        \o " " \o o.Port \o "}"

\* lines 416-418: name[1 : len(name)-1] panics when name is one double quote
QuotePanics(name) == name = "\""

\* NormalizeName that strips whenever the name starts with a double quote
NormalizeNameLeadingOnly(name) ==
    IF CharAt(name, 1) = "\"" THEN SubSeq(name, 2, Len(name) - 1) ELSE name

\* NormalizeName without its condition
NormalizeNameAlways(name) == SubSeq(name, 2, Len(name) - 1)

\* lines 416-418
NormalizeName(name) ==
    IF CharAt(name, 1) = "\"" /\ CharAt(name, Len(name)) = "\""
    THEN SubSeq(name, 2, Len(name) - 1)
    ELSE name

\* lines 411-434: what the loop makes of one entry: nothing (it is skipped),
\* a panic, or an item
EntryName(host) == NormalizeName(Join(host.Host))

EntryPanics(host) == QuotePanics(Join(host.Host))

\* EntrySkipped without lines 421-422: no entry resolves to its own name
EntrySkippedConnectionLess(host) ==
    \/ Join(host.Host) = ""
    \/ host.HostName = "" /\ host.ProxyCommand = ""

EntrySkipped(host) ==
    \/ Join(host.Host) = ""
    \/ /\ host.HostName = ""
       /\ host.ProxyCommand = ""
       /\ ~(IsIP(EntryName(host)) \/ IsDNSName(EntryName(host)))

\* EntryItem without line 422: an entry that resolves to its own name keeps
\* an empty HostName
EntryItemUnresolved(host) ==
    Host(EntryName(host), host.User, host.HostName, host.ProxyCommand, Itoa(host.Port))

EntryItem(host) ==
    Host(EntryName(host), host.User,
         IF host.HostName = "" /\ host.ProxyCommand = "" THEN EntryName(host)
         ELSE host.HostName,
         host.ProxyCommand, Itoa(host.Port))

\* lines 436-448
IsDuplicate(item, list) ==
    \E i \in 1..Len(list) : asSha256(list[i]) = asSha256(item)

\* lines 410-449: the loop over the entries; acc is table.Hosts so far
RECURSIVE NormalizeLoop(_, _)
NormalizeLoop(hs, acc) ==
    IF Len(hs) = 0 THEN [panic |-> FALSE, Hosts |-> acc]
    ELSE IF Join(Head(hs).Host) = "" THEN NormalizeLoop(Tail(hs), acc)
    ELSE IF EntryPanics(Head(hs)) THEN [panic |-> TRUE, Hosts |-> acc]
    ELSE IF EntrySkipped(Head(hs)) THEN NormalizeLoop(Tail(hs), acc)
    ELSE IF IsDuplicate(EntryItem(Head(hs)), acc) THEN NormalizeLoop(Tail(hs), acc)
    ELSE NormalizeLoop(Tail(hs), Append(acc, EntryItem(Head(hs))))

\* line 453: the less function of the sort
SortLess(a, b) == StringLess(ToLower(a.Name), ToLower(b.Name))

IndexPermutations(n) ==
    {p \in [1..n -> 1..n] : \A i, j \in 1..n : i # j => p[i] # p[j]}

\* lines 451-455: sort.Slice promises an order in which no element is less
\* than one before it, and nothing about elements neither of which is less
\* than the other
SortOutcomes(list, sorted) ==
    IF ~sorted THEN {list}
    ELSE {[i \in 1..Len(list) |-> list[p[i]]] :
            p \in {q \in IndexPermutations(Len(list)) :
                     \A i, j \in 1..Len(list) :
                         i < j => ~SortLess(list[q[j]], list[q[i]])}}

padding(text) == " " \o text \o " "

\* lines 477-488: row 0, the header cells and the expansion cell
HeaderCells ==
    <<padding("Hostname"), padding("User"), padding("Target"), padding("Port"), "">>

\* tview's Table.GetCell: the cell, or an empty cell where the table has none
GetCellText(cs, row, col) ==
    IF row + 1 \in 1..Len(cs) /\ col + 1 \in 1..Len(cs[row + 1])
    THEN cs[row + 1][col + 1]
    ELSE ""

\* lines 499-510
HostTarget(host, dfp) ==
    IF host.HostName # "" THEN host.HostName
    ELSE IF dfp THEN host.ProxyCommand
    ELSE "(Proxy)"

\* HostPassesFilter looking at the name only
HostPassesFilterNameOnly(host, flt, dfp) ==
    Contains(ToLower(host.Name), flt)

\* line 512
HostPassesFilter(host, flt, dfp) ==
    \/ Contains(ToLower(host.Name), flt)
    \/ Contains(ToLower(HostTarget(host, dfp)), flt)

\* lines 498-538: the loop over t.Hosts; cs is the table so far, sel the
\* selected row, selected the texts read at lines 493-496
RECURSIVE GenerateRows(_, _, _, _, _, _)
GenerateRows(hs, flt, dfp, selected, cs, sel) ==
    IF Len(hs) = 0 THEN [cells |-> cs, selectedRow |-> sel]
    ELSE IF Head(hs).HostName = "" /\ Head(hs).ProxyCommand = ""
    THEN GenerateRows(Tail(hs), flt, dfp, selected, cs, sel)
    ELSE IF ~HostPassesFilter(Head(hs), flt, dfp)
    THEN GenerateRows(Tail(hs), flt, dfp, selected, cs, sel)
    ELSE LET values == <<Head(hs).Name, Head(hs).User, HostTarget(Head(hs), dfp),
                         Head(hs).Port>>
             row == Len(cs)
             isPreviouslySelected == \A col \in 1..4 : selected[col] = values[col]
         IN  GenerateRows(Tail(hs), flt, dfp, selected,
                          Append(cs, <<padding(values[1]), padding(values[2]),
                                       padding(values[3]), padding(values[4]), "">>),
                          IF isPreviouslySelected THEN row ELSE sel)

\* lines 474-541: Generate.  t.Clear() empties the table and keeps the
\* selection; the header is set; then the selected row's texts are read
\* from the table as it is at that point.
Generate(hs, flt, dfp, sel) ==
    LET cleared == <<HeaderCells>>
        selected == [col \in 1..Len(HeaderCells) |-> GetCellText(cleared, sel, col - 1)]
    IN  GenerateRows(hs, flt, dfp, selected, cleared, sel)

\* tview's Table.Draw moves a selection that sits on a cell that cannot be
\* selected to the next cell that can: off the header row, to row 1
DrawSelection(sel) == IF sel <= 0 THEN 1 ELSE sel

TviewEntries == {EWebQuoted, EGateway, EWebLower, EWildcard}
TviewSeeds == {"", "w"}
TviewKeys == {"w", "B"}

\* the texts of at most n characters typed with the keys
RECURSIVE TextsUpTo(_, _)
TextsUpTo(keys, n) ==
    IF n = 0 THEN {""}
    ELSE TextsUpTo(keys, n - 1) \cup {t \o k : t \in TextsUpTo(keys, n - 1), k \in keys}

\* lines 365-458: NewHostsTable, from the parsed entries on
NewHostsTableFrom(hs, sorted, dfp, seed) ==
    /\ hosts' = hs
    /\ sortFlag' = sorted
    /\ displayFullProxy' = dfp
    /\ child' = <<>>
    /\ IF NormalizeLoop(hs, <<>>).panic
       THEN /\ pc' = "panic"
            /\ Hosts' = <<>>
            /\ filter' = ToLower(seed)
            /\ cells' = <<>>
            /\ selectedRow' = 0
       ELSE \E list \in SortOutcomes(NormalizeLoop(hs, <<>>).Hosts, sorted) :
            /\ pc' = "new"
            /\ Hosts' = list
            /\ filter' = ToLower(seed)
            /\ cells' = Generate(list, ToLower(seed), dfp, 0).cells
            /\ selectedRow' = Generate(list, ToLower(seed), dfp, 0).selectedRow
    /\ UNCHANGED <<terminal, termuiVars, sessionVars, startupVars, flexVars>>

\* the termui locals, which this generation does not have
NoTermui ==
    /\ rows = <<>>
    /\ tableRows = <<>>
    /\ search = ""
    /\ previousSearch = ""
    /\ selectedHost = 0
    /\ downRun = 0
    /\ runStart = 0

\* the program before NewHostsTable is called
BeforeNewHostsTable(entries) ==
    /\ hosts \in SeqsUpTo(entries, MaxHosts)
    /\ sortFlag \in BOOLEAN
    /\ displayFullProxy \in BOOLEAN
    /\ pc = "start"
    /\ child = <<>>
    /\ Hosts = <<>>
    /\ cells = <<>>
    /\ selectedRow = 0
    /\ terminal = "ui"
    /\ NoTermui
    /\ NoFlex
    /\ NoSession
    /\ NoStartup

NewHostsTable ==
    /\ pc = "start"
    /\ NewHostsTableFrom(hosts, sortFlag, displayFullProxy, filter)

\* Application.Run: the first draw
AppRun ==
    /\ pc = "new"
    /\ pc' = "loop"
    /\ selectedRow' = DrawSelection(selectedRow)
    /\ UNCHANGED <<hosts, displayFullProxy, child, terminal, termuiVars, sortFlag,
                   Hosts, filter, cells, sessionVars, startupVars, flexVars>>

\* Filter storing the text as it was typed
FilterKeepsCase(text) ==
    /\ pc = "loop"
    /\ IF text # filter
       THEN LET generated == Generate(Hosts, text, displayFullProxy, selectedRow)
            IN  /\ filter' = text
                /\ cells' = generated.cells
                /\ selectedRow' = DrawSelection(generated.selectedRow)
       ELSE UNCHANGED <<filter, cells, selectedRow>>
    /\ UNCHANGED <<sharedVars, termuiVars, sortFlag, Hosts, sessionVars, startupVars, flexVars>>

\* lines 465-472: Filter, called with the text of the search bar each time
\* it changes, and the draw that follows every event
Filter(text) ==
    /\ pc = "loop"
    /\ IF text # filter
       THEN LET generated == Generate(Hosts, ToLower(text), displayFullProxy, selectedRow)
            IN  /\ filter' = ToLower(text)
                /\ cells' = generated.cells
                /\ selectedRow' = DrawSelection(generated.selectedRow)
       ELSE UNCHANGED <<filter, cells, selectedRow>>
    /\ UNCHANGED <<sharedVars, termuiVars, sortFlag, Hosts, sessionVars, startupVars, flexVars>>

\* what the search bar can hold
TviewTexts == TextsUpTo(TviewKeys, MaxSearch)

SearchChanged == \E text \in TviewTexts : Filter(text)

\* lines 547-563: a navigation key goes to tview's Table.InputHandler, which
\* moves the selection to a row that can be selected
KeyMove ==
    /\ pc = "loop"
    /\ Len(cells) > 1
    /\ selectedRow' \in 1..(Len(cells) - 1)
    /\ UNCHANGED <<sharedVars, termuiVars, sortFlag, Hosts, filter, cells, sessionVars, startupVars, flexVars>>

InitTview ==
    /\ BeforeNewHostsTable(TviewEntries)
    /\ filter \in TviewSeeds

\* NewHostsTable alone, over entries of every shape
NormalizeEntries ==
    {EWebQuoted, EGateway, EWebLower, EWildcard, ESelf, EPairLeft, EPairRight,
     ENested, EQuoteOnly, EEmptyQuoted, ENoPattern, EUnbalanced, EIPAlias}

InitNormalize ==
    /\ BeforeNewHostsTable(NormalizeEntries)
    /\ filter = ""

NextNormalize == NewHostsTable

SpecNormalize == InitNormalize /\ [][NextNormalize]_vars

NextTview ==
    \/ NewHostsTable
    \/ AppRun
    \/ SearchChanged
    \/ KeyMove

SpecTview == InitTview /\ [][NextTview]_vars

-----------------------------------------------------------------------------
(* Properties of the termui event loop.                                    *)

\* the rows the table shows under the header
VisibleRows == Tail(tableRows)
VisibleCount == Len(tableRows) - 1

\* C2: after every processed event, when the visible rows are not empty the
\* selected index is one of their indices, 0 .. len(visibleRows)-1.
C2_SelectionInRange ==
    (pc # "panic" /\ VisibleCount > 0) => selectedHost \in 0..(VisibleCount - 1)

\* two rows are visible under a typed query and the second is selected
C2_Witness ==
    /\ pc = "loop"
    /\ previousSearch = "w"
    /\ VisibleCount = 2
    /\ selectedHost = 1

\* C3: a <Down> or <Up> event with n >= 1 visible rows moves the index to
\* (index + delta) mod n, in 0..n-1; with no visible row it leaves it alone.
C3_NavigateTo(delta) ==
    selectedHost' = IF VisibleCount >= 1
                    THEN (selectedHost + delta) % VisibleCount
                    ELSE selectedHost

C3_Navigate ==
    [][(EvDown => C3_NavigateTo(1)) /\ (EvUp => C3_NavigateTo(-1))]_vars

\* two <Down> events took the selection from row 0 over row 1 back to row 0
C3_Witness ==
    /\ pc = "loop"
    /\ VisibleCount = 2
    /\ downRun = 2
    /\ runStart = 0
    /\ selectedHost = 0

\* C4: with n >= 1 visible rows, n <Down> events in a row and nothing in
\* between bring the selection back to the index it started from.
C4_DownCycle ==
    (pc = "loop" /\ VisibleCount >= 1 /\ downRun = VisibleCount)
        => selectedHost = runStart

\* a full cycle of two <Down> events that started from row 1
C4_Witness ==
    /\ pc = "loop"
    /\ VisibleCount = 2
    /\ downRun = 2
    /\ runStart = 1
    /\ selectedHost = 1

\* C5: with no visible row an <Enter> event changes nothing: no child is
\* started, the program neither crashes nor exits, query and selection stay.
C5_EnterOnEmptyIsNoOp ==
    [][(VisibleCount = 0 /\ EvEnter)
         => (pc' = "loop" /\ child' = child
             /\ UNCHANGED <<search, tableRows, selectedHost>>)]_vars

\* C7: appending one character to the query never adds a visible row: the
\* rows shown once x is appended to the query q are among the rows that
\* filterRows gives for q.
C7_FilterMonotone ==
    [][(EvKey \/ EvSpace)
         => Range(VisibleRows') \subseteq Range(Tail(filterRows(rows, search)))]_vars

\* typing " w" narrowed two rows down to one
C7_Witness ==
    /\ pc = "loop"
    /\ previousSearch = " w"
    /\ Len(rows) = 2
    /\ VisibleCount = 1

-----------------------------------------------------------------------------
(* Properties of the tview HostsTable.                                     *)

Constructed == pc \in {"new", "loop"}

\* the four displayed values of a table row, as the cells hold them
RowValues(cs, row) == SubSeq(cs[row + 1], 1, 4)

\* C1: when a row R is selected and the query changes to one under which R
\* (same displayed name, user, target and port) is still visible, R is the
\* selected row afterwards, wherever it now stands.
C1_SelectionFollows ==
    [][(/\ pc = "loop"
        /\ filter' # filter
        /\ selectedRow \in 1..(Len(cells) - 1)
        /\ \E r \in 1..(Len(cells') - 1) : RowValues(cells', r) = RowValues(cells, selectedRow))
       => (/\ selectedRow' \in 1..(Len(cells') - 1)
           /\ RowValues(cells', selectedRow') = RowValues(cells, selectedRow))]_vars

\* sub occurs in s
IsSubstring(sub, s) ==
    \E i \in 1..(Len(s) + 1) : \E j \in (i - 1)..Len(s) : SubSeq(s, i, j) = sub

C6_Target(host) ==
    IF host.HostName # "" THEN host.HostName
    ELSE IF displayFullProxy THEN host.ProxyCommand
    ELSE "(Proxy)"

C6_Included(host) ==
    /\ host.HostName # "" \/ host.ProxyCommand # ""
    /\ \/ filter = ""
       \/ IsSubstring(filter, ToLower(host.Name))
       \/ IsSubstring(filter, ToLower(C6_Target(host)))

C6_Row(host) ==
    <<" " \o host.Name \o " ", " " \o host.User \o " ",
      " " \o C6_Target(host) \o " ", " " \o host.Port \o " ", "">>

\* C6: the rows under the header are the rows of exactly the hosts that have
\* a target and whose lowercased name or lowercased displayed target holds
\* the (lowercased) query, the empty query included; one row a host, in the
\* order of the host list.
C6_VisibleIffMatch ==
    Constructed =>
        LET included == SelectSeq(Hosts, C6_Included)
        IN  Tail(cells) = [k \in 1..Len(included) |-> C6_Row(included[k])]

\* under the query "w" the quoted Web is shown and the gateway, whose
\* placeholder target does not hold a w, is not
C6_Witness ==
    /\ pc = "loop"
    /\ filter = "w"
    /\ ~displayFullProxy
    /\ Len(Hosts) = 2
    /\ Hosts[1].Name = "gate"
    /\ Len(cells) = 2
    /\ cells[2][1] = " Web "

\* the items the entries give, in the order of the file, before duplicates
\* are looked for
RECURSIVE C8_Candidates(_)
C8_Candidates(hs) ==
    IF Len(hs) = 0 THEN <<>>
    ELSE IF EntrySkipped(Head(hs)) THEN C8_Candidates(Tail(hs))
    ELSE <<EntryItem(Head(hs))>> \o C8_Candidates(Tail(hs))

\* the elements of a sequence that no earlier element equals, in order
RECURSIVE C8_FirstOccurrences(_)
C8_FirstOccurrences(list) ==
    IF Len(list) = 0 THEN <<>>
    ELSE LET front == C8_FirstOccurrences(SubSeq(list, 1, Len(list) - 1))
             last == list[Len(list)]
         IN  IF \E i \in 1..(Len(list) - 1) : list[i] = last
             THEN front ELSE Append(front, last)

\* C8: two hosts are duplicates exactly when their tuples (name, user,
\* hostName, proxyCommand, port) are equal; the first of each set of
\* duplicates is kept and the kept hosts stay in the order of the file.
C8_DedupByTuple ==
    Constructed =>
        LET expected == C8_FirstOccurrences(C8_Candidates(hosts))
        IN  IF sortFlag
            THEN Len(Hosts) = Len(expected) /\ Range(Hosts) = Range(expected)
            ELSE Hosts = expected

\* the host list handed back as parsed entries: the name as the one pattern
C9_AsEntries(list) ==
    [k \in 1..Len(list) |->
        SSHHost(<<list[k].Name>>, list[k].HostName, list[k].User,
                Atoi(list[k].Port), list[k].ProxyCommand)]

\* what a second NewHostsTable can make of them
C9_SecondPass ==
    IF NormalizeLoop(C9_AsEntries(Hosts), <<>>).panic THEN {"panic"}
    ELSE SortOutcomes(NormalizeLoop(C9_AsEntries(Hosts), <<>>).Hosts, sortFlag)

C9_QuotedBothEnds(name) ==
    name # "" /\ CharAt(name, 1) = "\"" /\ CharAt(name, Len(name)) = "\""

C10_Expected(patterns) ==
    LET joined == Join(patterns)
    IN  IF /\ Len(joined) >= 2
           /\ SubSeq(joined, 1, 1) = "\""
           /\ SubSeq(joined, Len(joined), Len(joined)) = "\""
        THEN SubSeq(joined, 2, Len(joined) - 1)
        ELSE joined

\* C10: the display name of an entry is its patterns joined by single
\* spaces, less one pair of double quotes when the joined text starts and
\* ends with one, and the joined text itself otherwise; and every host of
\* the list bears the display name of the entry it was made from.
C10_DisplayName ==
    /\ \A i \in 1..Len(hosts) :
          (Join(hosts[i].Host) # "" /\ ~EntryPanics(hosts[i]))
              => EntryName(hosts[i]) = C10_Expected(hosts[i].Host)
    /\ Constructed =>
          \A k \in 1..Len(Hosts) : \E i \in 1..Len(hosts) :
              /\ Hosts[k].Name = C10_Expected(hosts[i].Host)
              /\ Hosts[k].User = hosts[i].User
              /\ Hosts[k].ProxyCommand = hosts[i].ProxyCommand
              /\ Hosts[k].Port = Itoa(hosts[i].Port)

\* a quoted name lost its quotes and a name quoted at one end kept its quote
C10_Witness ==
    /\ pc = "new"
    /\ ~sortFlag
    /\ Len(Hosts) = 2
    /\ Hosts[1].Name = "Web"
    /\ Hosts[2].Name = "\"ab"

-----------------------------------------------------------------------------
(* Properties of NewHostsTable, continued.                                 *)

\* an entry that reaches the connection-less rule: it has a name
C11_Reaches(entry) == Join(entry.Host) # "" /\ ~EntryPanics(entry)

C11_ConnectionLess(entry) == entry.HostName = "" /\ entry.ProxyCommand = ""

\* what the rule says of an entry: kept or not, and the hostName it has then
C11_Kept(entry) ==
    C11_ConnectionLess(entry)
        => (IsIP(C10_Expected(entry.Host)) \/ IsDNSName(C10_Expected(entry.Host)))

C11_HostName(entry) ==
    IF C11_ConnectionLess(entry) THEN C10_Expected(entry.Host) ELSE entry.HostName

\* C11: an entry without hostName and proxyCommand passes the rule exactly
\* when its display name is an IP address or a DNS name, and its hostName
\* is then the display name; an entry with a hostName or a proxyCommand
\* passes with both unchanged.  No host of the table is without a target,
\* the table has no more hosts than entries passed, and the first entry of
\* the file, which is no duplicate, is in the table when it passed.
C11_ConnectionLessRule ==
    /\ \A i \in 1..Len(hosts) :
          C11_Reaches(hosts[i]) =>
              /\ ~EntrySkipped(hosts[i]) <=> C11_Kept(hosts[i])
              /\ C11_Kept(hosts[i]) =>
                    /\ EntryItem(hosts[i]).HostName = C11_HostName(hosts[i])
                    /\ EntryItem(hosts[i]).ProxyCommand = hosts[i].ProxyCommand
    /\ Constructed =>
          /\ \A k \in 1..Len(Hosts) :
                Hosts[k].HostName # "" \/ Hosts[k].ProxyCommand # ""
          /\ Len(Hosts) <= Cardinality({i \in 1..Len(hosts) :
                                C11_Reaches(hosts[i]) /\ C11_Kept(hosts[i])})
          /\ (Len(hosts) >= 1 /\ C11_Reaches(hosts[1]) /\ C11_Kept(hosts[1])) =>
                \E k \in 1..Len(Hosts) :
                    /\ Hosts[k].Name = C10_Expected(hosts[1].Host)
                    /\ Hosts[k].HostName = C11_HostName(hosts[1])
                    /\ Hosts[k].ProxyCommand = hosts[1].ProxyCommand

\* the wildcard entry was dropped and the address entry resolves to itself
C11_Witness ==
    /\ pc = "new"
    /\ hosts = <<EIPAlias, EWildcard>>
    /\ Len(Hosts) = 1
    /\ Hosts[1].Name = "10.0.0.1"
    /\ Hosts[1].HostName = "10.0.0.1"


\* the hosts before the sort, in the order of the file
C12_ParseOrder == NormalizeLoop(hosts, <<>>).Hosts

\* list is a stable sort of parsed by name ignoring case: a rearrangement in
\* which names do not decrease and hosts of equal names keep their order
C12_IsStableSort(list, parsed) ==
    \E p \in IndexPermutations(Len(parsed)) :
        /\ list = [i \in 1..Len(parsed) |-> parsed[p[i]]]
        /\ \A i, j \in 1..Len(parsed) :
              i < j =>
                 \/ StringLess(ToLower(parsed[p[i]].Name), ToLower(parsed[p[j]].Name))
                 \/ /\ ToLower(parsed[p[i]].Name) = ToLower(parsed[p[j]].Name)
                    /\ p[i] < p[j]

\* C12: with the sort on, the host list is ordered by name ignoring case and
\* hosts whose names are equal ignoring case keep the order of the file;
\* with the sort off, the list is in the order of the file.
C12_StableOrdering ==
    Constructed =>
        IF sortFlag THEN C12_IsStableSort(Hosts, C12_ParseOrder)
        ELSE Hosts = C12_ParseOrder


\* C13: for every list of entries, whatever their patterns, NewHostsTable
\* returns a table: it ends in no panic.
C13_NormalizationTotal == pc \in {"start", "new", "loop"}

-----------------------------------------------------------------------------
(* The bubbletea generation: cmd.run (src/cmd/root.go, 147-239),           *)
(* display.NewDisplay, components.ListComponent, ssh.ParseHosts, ssh.Run.  *)

\* the tview table's state, in the generations that have none
NoTview ==
    /\ sortFlag = FALSE
    /\ Hosts = <<>>
    /\ filter = ""
    /\ cells = <<>>
    /\ selectedRow = 0

\* strings.Join(elems, sep)
RECURSIVE JoinSep(_, _)
JoinSep(elems, sep) ==
    IF Len(elems) = 0 THEN ""
    ELSE IF Len(elems) = 1 THEN elems[1]
    ELSE elems[1] \o sep \o JoinSep(Tail(elems), sep)

\* config.go lines 10-22: the loop of ParseHosts over the joined patterns;
\* the first double quote is skipped, the second one ends the loop
RECURSIVE ParseHostsScan(_, _, _)
ParseHostsScan(s, isInString, output) ==
    IF s = "" THEN output
    ELSE IF CharAt(s, 1) = "\""
    THEN IF isInString THEN output ELSE ParseHostsScan(Tail(s), TRUE, output)
    ELSE ParseHostsScan(Tail(s), isInString, output \o CharAt(s, 1))

\* config.go lines 5-25
ParseHosts(patterns) == ParseHostsScan(Join(patterns), FALSE, "")

\* github.com/google/shlex: the classes of its tokenizer
ShlexSpaces == {" ", "\t", "\r", "\n"}

\* shlex.Split: the tokenizer's state machine.  A double quote opens a
\* segment in which a backslash escapes, a single quote one in which
\* nothing does; a backslash outside quotes escapes the next character; a
\* '#' at the start of a token opens a comment that ends with the line;
\* unquoted white space ends a token.  The end of the text inside a quoted
\* segment or after a backslash is an error.
RECURSIVE ShlexScan(_, _, _, _)
ShlexScan(s, state, value, tokens) ==
    IF s = ""
    THEN CASE state = "start" -> [err |-> FALSE, tokens |-> tokens]
           [] state = "inWord" -> [err |-> FALSE, tokens |-> Append(tokens, value)]
           [] state = "comment" -> [err |-> FALSE, tokens |-> tokens]
           [] OTHER -> [err |-> TRUE, tokens |-> tokens]
    ELSE LET c == CharAt(s, 1)
             rest == Tail(s)
         IN  CASE state = "start" ->
                    IF c \in ShlexSpaces THEN ShlexScan(rest, "start", "", tokens)
                    ELSE IF c = "\"" THEN ShlexScan(rest, "quotingEscaping", "", tokens)
                    ELSE IF c = "'" THEN ShlexScan(rest, "quoting", "", tokens)
                    ELSE IF c = "\\" THEN ShlexScan(rest, "escaping", "", tokens)
                    ELSE IF c = "#" THEN ShlexScan(rest, "comment", "", tokens)
                    ELSE ShlexScan(rest, "inWord", c, tokens)
               [] state = "inWord" ->
                    IF c \in ShlexSpaces THEN ShlexScan(rest, "start", "", Append(tokens, value))
                    ELSE IF c = "\"" THEN ShlexScan(rest, "quotingEscaping", value, tokens)
                    ELSE IF c = "'" THEN ShlexScan(rest, "quoting", value, tokens)
                    ELSE IF c = "\\" THEN ShlexScan(rest, "escaping", value, tokens)
                    ELSE ShlexScan(rest, "inWord", value \o c, tokens)
               [] state = "escaping" -> ShlexScan(rest, "inWord", value \o c, tokens)
               [] state = "escapingQuoted" ->
                    ShlexScan(rest, "quotingEscaping", value \o c, tokens)
               [] state = "quotingEscaping" ->
                    IF c = "\"" THEN ShlexScan(rest, "inWord", value, tokens)
                    ELSE IF c = "\\" THEN ShlexScan(rest, "escapingQuoted", value, tokens)
                    ELSE ShlexScan(rest, "quotingEscaping", value \o c, tokens)
               [] state = "quoting" ->
                    IF c = "'" THEN ShlexScan(rest, "inWord", value, tokens)
                    ELSE ShlexScan(rest, "quoting", value \o c, tokens)
               [] OTHER ->
                    IF c = "\n" THEN ShlexScan(rest, "start", "", tokens)
                    ELSE ShlexScan(rest, "comment", value, tokens)

\* strings.Fields: the pieces between runs of white space
RECURSIVE FieldsScan(_, _, _)
FieldsScan(s, value, tokens) ==
    IF s = "" THEN IF value = "" THEN tokens ELSE Append(tokens, value)
    ELSE IF IsSpace(CharAt(s, 1))
    THEN FieldsScan(Tail(s), "", IF value = "" THEN tokens ELSE Append(tokens, value))
    ELSE FieldsScan(Tail(s), value \o CharAt(s, 1), tokens)

\* shlex.Split with strings.Fields in its place: quotes are characters
ShlexSplitFields(s) == [err |-> FALSE, tokens |-> FieldsScan(s, "", <<>>)]

\* ssh.go line 13
ShlexSplit(s) == ShlexScan(s, "start", "", <<>>)

\* ssh.go lines 12-16: Run returns the error of shlex.Split
RunSplitFails(additionalArguments) ==
    additionalArguments # "" /\ ShlexSplit(additionalArguments).err

\* RunArgs that leaves the config file out
RunArgsNoConfig(host, configPath, additionalArguments) ==
    <<host>> \o (IF additionalArguments # ""
                 THEN ShlexSplit(additionalArguments).tokens ELSE <<>>)

\* ssh.go lines 11-19: args
RunArgs(host, configPath, additionalArguments) ==
    <<"-F", configPath, host>>
        \o (IF additionalArguments # ""
            THEN ShlexSplit(additionalArguments).tokens ELSE <<>>)

\* display.go lines 35-52: details
ItemDetails(host, name, dfp) ==
    JoinSep(
        (IF host.HostName # "" /\ name # host.HostName
         THEN <<"Target: " \o host.HostName
                  \o (IF host.Port # 22 THEN ":" \o Itoa(host.Port) ELSE "")>>
         ELSE IF host.Port # 22 THEN <<"Port: " \o Itoa(host.Port)>>
         ELSE <<>>)
        \o <<"User: " \o host.User>>
        \o (IF dfp /\ host.ProxyCommand # ""
            THEN <<"ProxyCommand: " \o host.ProxyCommand>> ELSE <<>>),
        "\n")

\* display.go lines 29-60: rows
RECURSIVE NewDisplayRows(_, _)
NewDisplayRows(hs, dfp) ==
    IF Len(hs) = 0 THEN <<>>
    ELSE IF ParseHosts(Head(hs).Host) = "*" THEN NewDisplayRows(Tail(hs), dfp)
    ELSE <<[ID |-> Head(hs).Host,
            Name |-> ParseHosts(Head(hs).Host),
            Details |-> ItemDetails(Head(hs), ParseHosts(Head(hs).Host), dfp)]>>
         \o NewDisplayRows(Tail(hs), dfp)

\* display.go lines 66-85: the first entry whose patterns are the item's ID
OnSelectHost(hs, item) ==
    hs[CHOOSE i \in 1..Len(hs) :
          /\ hs[i].Host = item.ID
          /\ \A j \in 1..(i - 1) : hs[j].Host # item.ID]

ESpaced == SSHHost(<<"\"", "x\"">>, "s.io", "", 22, "")

SessionEntries == {EWebQuoted, EGateway, EWildcard, ESpaced}

\* values of --ssh-arguments: none, two words, a quoted segment with a
\* blank in it, a single-quoted one, a quote that is never closed, and one
\* with a placeholder
SessionArguments ==
    {"", "-D 1080", "-o \"a b\" -v", "'x y'", "\"-D", "-l %u"}

\* root.go lines 147-239 and display.go lines 28-94: run, up to d.Start()
InitSessionFrom(entries, arguments) ==
    /\ hosts \in SeqsUpTo(entries, MaxHosts)
    /\ displayFullProxy \in BOOLEAN
    /\ exitAfterSessionEnds \in BOOLEAN
    /\ additionalSSHArguments \in arguments
    /\ items = NewDisplayRows(hosts, displayFullProxy)
    /\ cursor = 0
    /\ started = 0
    /\ childStatus = NoStatus
    /\ exitCode = NoStatus
    /\ pc = "list"
    /\ child = <<>>
    /\ terminal = "ui"
    /\ NoTermui
    /\ NoFlex
    /\ NoTview
    /\ NoStartup

InitSession == InitSessionFrom(SessionEntries, SessionArguments)

\* entries whose patterns hold double quotes in other places than both
\* ends, and two entries with the same patterns
EWebTwin == SSHHost(<<"\"Web\"">>, "w2.io", "admin", 22, "")
EQuoteInside == SSHHost(<<"a\"b">>, "q.io", "", 22, "")

DisplayEntries == {EWebQuoted, EWebTwin, EUnbalanced, EQuoteInside}

InitDisplay == InitSessionFrom(DisplayEntries, {""})

\* d.Pause() left out
ReleaseTerminalSkipped == "ui"

\* root.go line 220, display.go lines 105-107: d.Pause() is
\* Program.ReleaseTerminal()
ReleaseTerminal == "released"

\* a nil ProcessState dereferenced: the tool panics
StartFailureCrash == [pc |-> "panic", exitCode |-> NoStatus]

\* ssh.go lines 26-29 when command.Run could not start ssh: ProcessState is
\* nil, ExitCode() of a nil ProcessState is -1, and os.Exit(-1) ends the
\* tool with the status -1 modulo 256
StartFailureOutcome == [pc |-> "exited", exitCode |-> (-1) % 256]

\* list.go lines 93-103 with display.go lines 65-86, root.go lines 219-232
\* and ssh.go lines 10-26: Enter.  The terminal is released, the arguments
\* are built and command.Run starts the child, in which it blocks.  When
\* the additional arguments do not tokenize, Run returns the error, which
\* the caller drops.  When ssh cannot be started, command.Run returns an
\* error with no ProcessState, whose ExitCode() is -1: exit status 255.
KeyEnter ==
    /\ pc = "list"
    /\ started < MaxLaunches
    /\ IF Len(items) = 0
       THEN /\ pc' = "panic"
            /\ UNCHANGED <<child, terminal, started, exitCode>>
       ELSE LET host == OnSelectHost(hosts, items[cursor + 1])
                sshHost == ParseHosts(host.Host)
            IN  IF RunSplitFails(additionalSSHArguments)
                THEN /\ pc' = IF exitAfterSessionEnds THEN "exited" ELSE "list"
                     /\ exitCode' = IF exitAfterSessionEnds THEN 0 ELSE exitCode
                     /\ terminal' = IF exitAfterSessionEnds THEN "restored" ELSE "ui"
                     /\ UNCHANGED <<child, started>>
                ELSE \/ /\ pc' = "child"
                        /\ child' = <<"ssh">> \o RunArgs(sshHost, ConfigPath,
                                                         additionalSSHArguments)
                        /\ started' = started + 1
                        /\ terminal' = ReleaseTerminal
                        /\ UNCHANGED exitCode
                     \/ /\ pc' = StartFailureOutcome.pc
                        /\ exitCode' = StartFailureOutcome.exitCode
                        /\ terminal' = ReleaseTerminal
                        /\ UNCHANGED <<child, started>>
    /\ UNCHANGED <<hosts, displayFullProxy, termuiVars, tviewVars, startupVars, flexVars,
                   exitAfterSessionEnds, additionalSSHArguments, items, cursor,
                   childStatus>>

\* os.Exit(1) in the place of os.Exit(command.ProcessState.ExitCode())
ProcessExitCodeOne(k) == 1

\* ssh.go line 28: command.ProcessState.ExitCode() of a child that ended
\* with status k
ProcessExitCode(k) == k

\* ChildEnded starting the child again after a status other than 0
ChildEndedRetry(k) ==
    /\ childStatus' = k
    /\ IF k # 0
       THEN /\ pc' = "child"
            /\ started' = IF started < MaxLaunches THEN started + 1 ELSE started
            /\ UNCHANGED <<terminal, exitCode, child>>
       ELSE /\ pc' = IF exitAfterSessionEnds THEN "exited" ELSE "list"
            /\ exitCode' = IF exitAfterSessionEnds THEN 0 ELSE exitCode
            /\ terminal' = IF exitAfterSessionEnds THEN "restored" ELSE "ui"
            /\ child' = <<>>
            /\ UNCHANGED started

\* ssh.go lines 26-31 and root.go lines 226-231: the child ends with status
\* k.  A status other than 0 is an error of command.Run: os.Exit(k).  After
\* status 0 Run returns, and the caller stops the program or resumes it.
ChildEnded(k) ==
    /\ childStatus' = k
    /\ IF k # 0
       THEN /\ pc' = "exited"
            /\ exitCode' = ProcessExitCode(k)
            /\ UNCHANGED terminal
       ELSE IF exitAfterSessionEnds
       THEN /\ pc' = "exited"
            /\ exitCode' = 0
            /\ terminal' = "restored"
       ELSE /\ pc' = "list"
            /\ terminal' = "ui"
            /\ UNCHANGED exitCode
    /\ child' = <<>>
    /\ UNCHANGED started

ChildExits ==
    /\ pc = "child"
    /\ \E k \in 0..MaxStatus : ChildEnded(k)
    /\ UNCHANGED <<hosts, displayFullProxy, termuiVars, tviewVars, startupVars, flexVars,
                   exitAfterSessionEnds, additionalSSHArguments, items, cursor>>

\* CursorDown handled while command.Run waits for the child
CursorDownAnytime ==
    /\ pc \in {"list", "child"}
    /\ cursor' = IF cursor + 1 < Len(items) THEN cursor + 1 ELSE cursor
    /\ UNCHANGED <<sharedVars, termuiVars, tviewVars, startupVars, flexVars,
                   exitAfterSessionEnds, additionalSSHArguments, items, started,
                   childStatus, exitCode>>

\* list.go line 82: the list's own keys; down and up stop at the ends
CursorDown ==
    /\ pc = "list"
    /\ cursor' = IF cursor + 1 < Len(items) THEN cursor + 1 ELSE cursor
    /\ UNCHANGED <<sharedVars, termuiVars, tviewVars, startupVars, flexVars,
                   exitAfterSessionEnds, additionalSSHArguments, items, started,
                   childStatus, exitCode>>

CursorUp ==
    /\ pc = "list"
    /\ cursor' = IF cursor > 0 THEN cursor - 1 ELSE cursor
    /\ UNCHANGED <<sharedVars, termuiVars, tviewVars, startupVars, flexVars,
                   exitAfterSessionEnds, additionalSSHArguments, items, started,
                   childStatus, exitCode>>

\* list.go lines 76-78: the window's size changes the size of the list
WindowSizeMsg ==
    /\ pc = "list"
    /\ UNCHANGED vars

\* list.go line 82 and display.go lines 96-103: the list's quit key ends
\* Program.Run, and run returns
KeyQuit ==
    /\ pc = "list"
    /\ pc' = "exited"
    /\ exitCode' = 0
    /\ terminal' = "restored"
    /\ UNCHANGED <<hosts, displayFullProxy, child, termuiVars, tviewVars, startupVars, flexVars,
                   exitAfterSessionEnds, additionalSSHArguments, items, cursor,
                   started, childStatus>>

NextSession ==
    \/ KeyEnter
    \/ ChildExits
    \/ CursorDown
    \/ CursorUp
    \/ WindowSizeMsg
    \/ KeyQuit

SpecSession == InitSession /\ [][NextSession]_vars

\* the same program over the entries of DisplayEntries
SpecDisplay == InitDisplay /\ [][NextSession]_vars

-----------------------------------------------------------------------------
(* The start of the bubbletea generation: root.go, run, from the flags to  *)
(* d.Start().                                                              *)

HomeDir == "/home/u"

\* strings.HasPrefix
HasPrefix(s, prefix) ==
    Len(s) >= Len(prefix) /\ SubSeq(s, 1, Len(prefix)) = prefix

\* root.go lines 157-164: sshConfigPath after a leading "~/" was replaced by
\* the user's home directory
ExpandedConfigPath(flag) ==
    IF HasPrefix(flag, "~/")
    THEN HomeDir \o "/" \o SubSeq(flag, 3, Len(flag))
    ELSE flag

\* root.go lines 172-175: the test that guards the creation of the file,
\* made on sshConfigPath as lines 157-164 left it
BootstrapApplies(sshConfigPath, file) ==
    sshConfigPath = "~/.ssh/config" /\ file.state = "missing"

\* sshconfig.Parse with its error dropped: a file that cannot be read counts
\* as a configuration without entries
ParseFailsNever(file) == FALSE

\* root.go lines 207-210: sshconfig.Parse returns an error for a file that
\* is not there or cannot be read
ParseFails(file) == file.state # "present"

StartupFlags == {"~/.ssh/config", "cfg", ""}
StartupSeeds == {"", "w"}

\* the file at the resolved path: not there, there and unreadable, or there
\* with entries
StartupFiles ==
    {[state |-> "missing", entries |-> <<>>],
     [state |-> "unreadable", entries |-> <<>>]}
    \cup {FileOf(hs) : hs \in SeqsUpTo(SessionEntries, MaxHosts)}

\* the process as main hands it to run
InitStartup ==
    /\ configFlag \in StartupFlags
    /\ configFile \in StartupFiles
    /\ searchFilter \in StartupSeeds
    /\ sshCommandPattern = ""
    /\ displayFullProxy \in BOOLEAN
    /\ exitAfterSessionEnds \in BOOLEAN
    /\ additionalSSHArguments = ""
    /\ hosts = <<>>
    /\ items = <<>>
    /\ cursor = 0
    /\ started = 0
    /\ childStatus = NoStatus
    /\ exitCode = NoStatus
    /\ pc = "run"
    /\ child = <<>>
    /\ terminal = "shell"
    /\ NoTermui
    /\ NoFlex
    /\ NoTview

\* root.go lines 150-205: the flags are read, the path is resolved and the
\* default file is created when the test of line 172 says so; log.Fatal
\* ends the process with status 1
RunResolve ==
    /\ pc = "run"
    /\ IF configFlag = ""
       THEN /\ pc' = "fatal"
            /\ exitCode' = 1
            /\ UNCHANGED configFile
       ELSE /\ pc' = "parse"
            /\ configFile' = IF BootstrapApplies(ExpandedConfigPath(configFlag),
                                                 configFile)
                             THEN FileOf(<<>>) ELSE configFile
            /\ UNCHANGED exitCode
    /\ UNCHANGED <<hosts, displayFullProxy, child, terminal, termuiVars, tviewVars,
                   exitAfterSessionEnds, additionalSSHArguments, items, cursor,
                   started, childStatus, configFlag, searchFilter,
                   sshCommandPattern, flexVars>>

\* root.go lines 207-238, display.go lines 28-103 and list.go lines 40-68:
\* the file is parsed, the list is built from every entry and the program
\* starts drawing; config.SearchFilter is stored in DefaultSearchFilter,
\* which NewListComponent does not read
RunParse ==
    /\ pc = "parse"
    /\ IF ParseFails(configFile)
       THEN /\ pc' = "fatal"
            /\ exitCode' = 1
            /\ UNCHANGED <<hosts, items, terminal>>
       ELSE /\ pc' = "list"
            /\ hosts' = configFile.entries
            /\ items' = NewDisplayRows(configFile.entries, displayFullProxy)
            /\ terminal' = "ui"
            /\ UNCHANGED exitCode
    /\ UNCHANGED <<displayFullProxy, child, termuiVars, tviewVars, startupVars, flexVars,
                   exitAfterSessionEnds, additionalSSHArguments, cursor, started,
                   childStatus>>

NextStartup ==
    \/ RunResolve
    \/ RunParse
    \/ NextSession

SpecStartup == InitStartup /\ [][NextStartup]_vars

-----------------------------------------------------------------------------
(* connect with a command pattern (part_007, lines 331-356) and the Enter  *)
(* key of the table that calls it (lines 388-408).                         *)

\* strings.Replace(s, old, new, -1) for a non-empty old
RECURSIVE ReplaceAll(_, _, _)
ReplaceAll(s, old, new) ==
    IF Len(s) < Len(old) THEN s
    ELSE IF SubSeq(s, 1, Len(old)) = old
    THEN new \o ReplaceAll(SubSeq(s, Len(old) + 1, Len(s)), old, new)
    ELSE SubSeq(s, 1, 1) \o ReplaceAll(Tail(s), old, new)

\* connectArg replacing in one pass over the argument: what a value brings
\* in is not looked at again
RECURSIVE connectArgOnePass(_, _, _)
connectArgOnePass(arg, item, configPath) ==
    IF Len(arg) < 2 THEN arg
    ELSE LET head == SubSeq(arg, 1, 2)
             rest == SubSeq(arg, 3, Len(arg))
         IN  IF head = "%u" THEN item.User \o connectArgOnePass(rest, item, configPath)
             ELSE IF head = "%h" THEN item.HostName \o connectArgOnePass(rest, item, configPath)
             ELSE IF head = "%p" THEN item.Port \o connectArgOnePass(rest, item, configPath)
             ELSE IF head = "%r" THEN item.ProxyCommand \o connectArgOnePass(rest, item, configPath)
             ELSE IF head = "%n" THEN item.Name \o connectArgOnePass(rest, item, configPath)
             ELSE IF head = "%c" THEN configPath \o connectArgOnePass(rest, item, configPath)
             ELSE SubSeq(arg, 1, 1) \o connectArgOnePass(Tail(arg), item, configPath)

\* lines 334-340: the six replacements made on one argument, in this order
connectArg(arg, item, configPath) ==
    LET u == ReplaceAll(arg, "%u", item.User)
        h == ReplaceAll(u, "%h", item.HostName)
        p == ReplaceAll(h, "%p", item.Port)
        r == ReplaceAll(p, "%r", item.ProxyCommand)
        n == ReplaceAll(r, "%n", item.Name)
    IN  ReplaceAll(n, "%c", configPath)

\* lines 332-341: args
connectArgs(item, configPath, pattern) ==
    LET fields == FieldsScan(pattern, "", <<>>)
    IN  [i \in 1..Len(fields) |-> connectArg(fields[i], item, configPath)]

\* entries whose values hold the tokens of other placeholders
EUserRef  == SSHHost(<<"a">>, "h%p", "%h", 22, "")
EHostRef  == SSHHost(<<"b">>, "%u", "root", 2222, "")
EProxyRef == SSHHost(<<"c">>, "", "", 22, "%n")

ConnectEntries == {EUserRef, EHostRef, EProxyRef}
ConnectPatterns == {"ssh -F %c %n", "%u", "%h", "%r %p", ""}

\* the program before NewHostsTable is called with a command pattern
InitConnect ==
    /\ hosts \in SeqsUpTo(ConnectEntries, MaxHosts)
    /\ sshCommandPattern \in ConnectPatterns
    /\ sortFlag \in BOOLEAN
    /\ displayFullProxy \in BOOLEAN
    /\ filter = ""
    /\ pc = "start"
    /\ child = <<>>
    /\ Hosts = <<>>
    /\ cells = <<>>
    /\ selectedRow = 0
    /\ terminal = "ui"
    /\ configFlag = "cfg"
    /\ configFile = FileOf(hosts)
    /\ searchFilter = ""
    /\ NoTermui
    /\ NoFlex
    /\ NoSession

\* lines 388-408: Enter on the table.  The name is read from the first cell
\* of the selected row; the first host of that name is connected to, after
\* app.Stop().  exec.Command(args[0], ...) panics when the pattern has no
\* field.
TableEnter ==
    /\ pc = "loop"
    /\ LET hostname == GetCellText(cells, selectedRow, 0)
           found == {i \in 1..Len(Hosts) : Hosts[i].Name = TrimSpace(hostname)}
       IN  IF Len(hostname) > 0 /\ found # {}
           THEN LET item == Hosts[CHOOSE i \in found : \A j \in found : i <= j]
                    args == connectArgs(item, ConfigPath, sshCommandPattern)
                IN  /\ terminal' = "released"
                    /\ IF Len(args) = 0
                       THEN pc' = "panic" /\ child' = child
                       ELSE pc' = "child" /\ child' = args
           ELSE UNCHANGED <<pc, child, terminal>>
    /\ UNCHANGED <<hosts, displayFullProxy, termuiVars, tviewVars, sessionVars,
                   startupVars, flexVars>>

\* lines 349-355: cmd.Run() returns; the tool ends with the child's status,
\* which is -1 modulo 256 when the program could not be started
connectEnds ==
    /\ pc = "child"
    /\ \E k \in (0..MaxStatus) \cup {255} :
          /\ childStatus' = k
          /\ exitCode' = k
    /\ pc' = "exited"
    /\ child' = <<>>
    /\ UNCHANGED <<hosts, displayFullProxy, terminal, termuiVars, tviewVars,
                   startupVars, flexVars, exitAfterSessionEnds, additionalSSHArguments,
                   items, cursor, started>>

NextConnect ==
    \/ NewHostsTable
    \/ AppRun
    \/ KeyMove
    \/ TableEnter
    \/ connectEnds

SpecConnect == InitConnect /\ [][NextConnect]_vars

-----------------------------------------------------------------------------
(* Properties of the bubbletea generation.                                 *)

C15_ResumesAfterSession ==
    [][(ChildExits /\ ~exitAfterSessionEnds)
         => (pc' = "list" /\ terminal' = "ui" /\ exitCode' = NoStatus)]_vars


\* the name the list shows for the selected item
C16_SelectedName == items[cursor + 1].Name

\* C16 as stated: with no additional arguments, the child is ssh with the
\* arguments -F, the config path and the display name of the selected host
\* trimmed of the white space around it.
C16_DefaultFormTrimmed ==
    (pc = "child" /\ additionalSSHArguments = "")
        => child = <<"ssh", "-F", ConfigPath, TrimSpace(C16_SelectedName)>>

\* C16, amended: with no additional arguments, the child is ssh with the
\* arguments -F, the config path and the display name of the selected host
\* as it is shown, the white space around it included.
C16_DefaultForm ==
    (pc = "child" /\ additionalSSHArguments = "")
        => child = <<"ssh", "-F", ConfigPath, C16_SelectedName>>

\* the host shown as " x" is being connected to, under that very name
C16_Witness ==
    /\ pc = "child"
    /\ additionalSSHArguments = ""
    /\ C16_SelectedName = " x"
    /\ child = <<"ssh", "-F", ConfigPath, " x">>

\* what each character of a template is: a quote that opens or closes a
\* segment, a character inside a segment, or a character outside of one
RECURSIVE C18_Tags(_, _)
C18_Tags(s, quote) ==
    IF s = "" THEN <<>>
    ELSE LET c == SubSeq(s, 1, 1)
         IN  IF quote = "" /\ c \in {"\"", "'"} THEN <<"open">> \o C18_Tags(Tail(s), c)
             ELSE IF quote # "" /\ c = quote THEN <<"close">> \o C18_Tags(Tail(s), "")
             ELSE <<IF quote = "" THEN "plain" ELSE "quoted">> \o C18_Tags(Tail(s), quote)

\* position i holds white space outside every quoted segment
C18_Separates(s, i) ==
    C18_Tags(s, "")[i] = "plain" /\ SubSeq(s, i, i) \in {" ", "\t", "\n", "\r"}

\* the stretches of the template between two separators
C18_Stretches(s) ==
    {st \in (1..Len(s)) \X (1..Len(s)) :
        /\ st[1] <= st[2]
        /\ \A i \in st[1]..st[2] : ~C18_Separates(s, i)
        /\ st[1] = 1 \/ C18_Separates(s, st[1] - 1)
        /\ st[2] = Len(s) \/ C18_Separates(s, st[2] + 1)}

\* the characters of a stretch, the quotes that delimit segments left out
RECURSIVE C18_Text(_, _, _)
C18_Text(s, from, to) ==
    IF from > to THEN ""
    ELSE (IF C18_Tags(s, "")[from] \in {"plain", "quoted"} THEN SubSeq(s, from, from) ELSE "")
         \o C18_Text(s, from + 1, to)

\* the tokens of a template: one a stretch, from left to right
C18_Tokens(s) ==
    [k \in 1..Cardinality(C18_Stretches(s)) |->
        LET st == CHOOSE x \in C18_Stretches(s) :
                      Cardinality({y \in C18_Stretches(s) : y[1] < x[1]}) = k - 1
        IN  C18_Text(s, st[1], st[2])]

\* C18: the additional arguments are split at white space that is outside
\* quotes; a quoted segment, white space included, stays within one
\* argument and loses its quotes.  The child gets the tokens, in order,
\* after the fixed arguments.
C18_QuotingRespected ==
    (pc = "child" /\ additionalSSHArguments # "")
        => SubSeq(child, 5, Len(child)) = C18_Tokens(additionalSSHArguments)

\* the quoted "a b" reached the child as one argument
C18_Witness ==
    /\ pc = "child"
    /\ additionalSSHArguments = "-o \"a b\" -v"
    /\ Len(child) = 7
    /\ child[6] = "a b"


\* the additional arguments tokenize: every quote that opens a segment has
\* one that closes it
C19_Tokenizes(s) ==
    Cardinality({i \in 1..Len(s) : C18_Tags(s, "")[i] = "open"})
        = Cardinality({i \in 1..Len(s) : C18_Tags(s, "")[i] = "close"})

\* the end of a child is the end of its launch: it is not started again
C19_NoRetry == ChildExits => (started' = started /\ pc' # "child" /\ child' = <<>>)

\* C19: each Enter on a selected host starts exactly one child process,
\* provided ssh can be started at all, and a child that ended, with whatever
\* status, is not started again by the tool.
C19_ExactlyOneLaunch ==
    [][/\ (KeyEnter /\ Len(items) > 0 /\ exitCode' # 255)
             => started' = started + 1
       /\ C19_NoRetry]_vars

\* What does hold of the launches: each Enter on a selected host starts at
\* most one child process, and exactly one when the additional arguments
\* tokenize and ssh can be started; a child that ended, with whatever
\* status, is not started again by the tool.
C19_AtMostOneLaunch ==
    [][/\ started' \in {started, started + 1}
       /\ (KeyEnter /\ Len(items) > 0) =>
             ((C19_Tokenizes(additionalSSHArguments) /\ exitCode' # 255)
                 => (started' = started + 1 /\ pc' = "child"))
       /\ C19_NoRetry]_vars

\* a second session was opened after the first one ended with status 0
C19_Witness ==
    /\ pc = "child"
    /\ started = 2
    /\ childStatus = 0

\* C20: whenever a child process runs, the terminal has been released.
C20_ReleasedBeforeChild ==
    (pc \in {"child", "exec"} \/ child # <<>>) => terminal = "released"

\* a child runs on the released terminal
C20_Witness ==
    /\ pc = "child"
    /\ started = 1
    /\ child # <<>>
    /\ terminal = "released"


\* the host the cursor is on
C17_SelectedHost == OnSelectHost(hosts, items[cursor + 1])

\* s with every occurrence of the two-character placeholder replaced by value
RECURSIVE C17_Replace(_, _, _)
C17_Replace(s, placeholder, value) ==
    IF Len(s) < 2 THEN s
    ELSE IF SubSeq(s, 1, 2) = placeholder
    THEN value \o C17_Replace(SubSeq(s, 3, Len(s)), placeholder, value)
    ELSE SubSeq(s, 1, 1) \o C17_Replace(Tail(s), placeholder, value)

\* one token of the template, rendered for the selected host
C17_Render(token) ==
    LET host == C17_SelectedHost
        u == C17_Replace(token, "%u", host.User)
        h == C17_Replace(u, "%h", host.HostName)
        p == C17_Replace(h, "%p", Itoa(host.Port))
        r == C17_Replace(p, "%r", host.ProxyCommand)
        n == C17_Replace(r, "%n", C16_SelectedName)
    IN  C17_Replace(n, "%c", ConfigPath)

\* C17: the tokens of a non-empty template reach the child with their
\* placeholders replaced by the fields of the selected host.
C17_TemplatedLaunch ==
    (pc = "child" /\ additionalSSHArguments # "") =>
        LET tokens == C18_Tokens(additionalSSHArguments)
        IN  /\ Len(child) >= Len(tokens)
            /\ \A i \in 1..Len(tokens) :
                  child[Len(child) - Len(tokens) + i] = C17_Render(tokens[i])


-----------------------------------------------------------------------------
(* Properties of the rows, of the host list and of startup.                *)

\* the target the claim gives a retained entry
C21_Target(host) ==
    IF host.HostName # "" THEN host.HostName
    ELSE IF displayFullProxy THEN host.ProxyCommand
    ELSE "(Proxy)"

\* the entries that have a target, in the order of the file
C21_Retained == SelectSeq(hosts, LAMBDA h : h.HostName # "" \/ h.ProxyCommand # "")

\* a row without the blank each cell is padded with on the left
C21_Shown(row) == [col \in 1..Len(row) |-> Tail(row[col])]

\* C21: the row of a host shows, in this order, its displayName, its user,
\* its target and its port, the target being the hostName when there is
\* one, else the proxy command under --proxy and "(Proxy)" without it.
C21_TargetProjection ==
    pc = "loop" =>
        /\ Len(rows) = Len(C21_Retained)
        /\ \A k \in 1..Len(rows) :
              C21_Shown(rows[k]) =
                  <<C10_Expected(C21_Retained[k].Host),
                    C21_Retained[k].User,
                    C21_Target(C21_Retained[k]),
                    Itoa(C21_Retained[k].Port)>>

\* the gateway, which has a proxy command only, shown without --proxy
C21_Witness ==
    /\ pc = "loop"
    /\ ~displayFullProxy
    /\ Len(rows) = 2
    /\ rows[1] = <<" gate", " ", " (Proxy)", " 22">>
    /\ rows[2][3] = " b.io"


\* C22: no event changes the parsed entries, the --proxy flag or the rows
\* built from them at startup: the full list of rows stays the list built
\* from the entries, whatever the query, the visible rows and the selection
\* become.
C22_HostListImmutable ==
    /\ [][hosts' = hosts /\ displayFullProxy' = displayFullProxy /\ rows' = rows]_vars
    /\ [](pc = "loop" => rows = BuildRows(hosts, displayFullProxy))

\* after filters and navigation: a query that hides one of two rows, the
\* selection moved by keys that took effect
C22_Witness ==
    /\ pc = "loop"
    /\ previousSearch = "w"
    /\ Len(rows) = 2
    /\ Len(tableRows) = 2
    /\ downRun = 2


\* the file named by --config, as it was found, cannot be read
C23_Unreadable == configFile.state # "present"

\* C23: when the configuration file cannot be read, the program ends before
\* its list is shown: it reaches no state in which a key is handled, it
\* starts no child process, and nothing follows the fatal end.
C23_FatalStartup ==
    /\ [](C23_Unreadable =>
            /\ pc \in {"run", "parse", "fatal"}
            /\ terminal = "shell"
            /\ child = <<>>
            /\ started = 0
            /\ cursor = 0)
    /\ [][pc # "fatal"]_vars

\* the file given with --config is not there, and the program ended
C23_Witness ==
    /\ pc = "fatal"
    /\ configFlag = "cfg"
    /\ configFile.state = "missing"
    /\ exitCode = 1


\* C30: when --config is left at ~/.ssh/config and that file is not there,
\* the file is created, empty, before the configuration is parsed, and the
\* start does not fail for want of it.
C30_DefaultConfigBootstrap ==
    [][(RunResolve /\ configFlag = "~/.ssh/config" /\ configFile.state = "missing")
         => (pc' = "parse" /\ configFile' = FileOf(<<>>))]_vars


\* the item answers the query: its name or its details hold it, letter case
\* apart
C29_Matches(item, query) ==
    \/ IsSubstring(ToLower(query), ToLower(item.Name))
    \/ IsSubstring(ToLower(query), ToLower(item.Details))

\* C29: with a non-empty --search, the list first shown, before any key,
\* holds exactly the items that answer the seed as query.
C29_SearchSeed ==
    [][(RunParse /\ pc' = "list" /\ searchFilter # "")
         => items' = SelectSeq(NewDisplayRows(hosts', displayFullProxy),
                               LAMBDA item : C29_Matches(item, searchFilter))]_vars


\* C24: when a change of the query leaves rows to show and the row that was
\* selected is not one of them, the selection is the first row afterwards.
C24_RefilterReset ==
    [][(/\ pc = "loop"
        /\ search' # search
        /\ selectedHost + 2 <= Len(tableRows)
        /\ Len(tableRows') > 1
        /\ tableRows[selectedHost + 2] \notin Range(Tail(tableRows')))
       => selectedHost' = 0]_vars


\* C27: a <Resize> event leaves the query, the visible rows and the selected
\* index as they were.
C27_ResizeFrame ==
    [][EvResize => /\ search' = search
                   /\ tableRows' = tableRows
                   /\ selectedHost' = selectedHost]_vars

\* an event that is not <Down> was handled under the query w with the
\* second of two visible rows selected
C27_Witness ==
    /\ pc = "loop"
    /\ search = "w"
    /\ previousSearch = "w"
    /\ Len(tableRows) = 3
    /\ selectedHost = 1
    /\ downRun = 0
    /\ runStart = 1


\* C25: when Enter on a host, with arguments that tokenize, starts no child
\* (ssh could not be started), the tool ends there with a status other than
\* 0, without a child and without a panic; and nothing follows its end, so
\* that no second start is attempted.
C25_StartFailure ==
    /\ [][(/\ KeyEnter
           /\ Len(items) > 0
           /\ C19_Tokenizes(additionalSSHArguments)
           /\ pc' # "child")
          => (/\ pc' = "exited"
              /\ exitCode' \in 1..255
              /\ started' = started
              /\ child' = <<>>)]_vars
    /\ [][pc # "exited"]_vars

\* ssh could not be started for the first host chosen: status 255
C25_Witness ==
    /\ pc = "exited"
    /\ started = 0
    /\ childStatus = NoStatus
    /\ exitCode = 255


\* C28: while the child runs, the only step the program takes is the one
\* made when the child ends; until then no key and no resize reaches the
\* list, whose items and selection stay as they are.
C28_LoopSuspended ==
    [][pc = "child" => (ChildExits /\ cursor' = cursor /\ items' = items)]_vars

\* a child runs for the second item of the list
C28_Witness ==
    /\ pc = "child"
    /\ started = 1
    /\ Len(items) = 2
    /\ cursor = 1


\* the placeholders, in the order connect replaces them
C26_Order == <<"%u", "%h", "%p", "%r", "%n", "%c">>

\* the host of the selected row
C26_Item ==
    Hosts[CHOOSE i \in 1..Len(Hosts) :
            /\ " " \o Hosts[i].Name \o " " = cells[selectedRow + 1][1]
            /\ \A j \in 1..(i - 1) : Hosts[j].Name # Hosts[i].Name]

\* the value connect puts in the place of the k-th placeholder
C26_Value(k) ==
    <<C26_Item.User, C26_Item.HostName, C26_Item.Port, C26_Item.ProxyCommand,
      C26_Item.Name, ConfigPath>>[k]

\* the value of placeholder a holds the token of placeholder b and of no
\* other, and the value of b holds no token at all
C26_Refers(a, b) ==
    /\ IsSubstring(C26_Order[b], C26_Value(a))
    /\ \A c \in 1..6 : c # b => ~IsSubstring(C26_Order[c], C26_Value(a))
    /\ \A c \in 1..6 : ~IsSubstring(C26_Order[c], C26_Value(b))

\* where the pattern has the token of a alone as a field, the argument is
\* the value of a with the value of b in the place of the token of b
C26_Resubstituted(a, b) ==
    \A i \in 1..Len(child) :
        FieldsScan(sshCommandPattern, "", <<>>)[i] = C26_Order[a] =>
            child[i] = C17_Replace(C26_Value(a), C26_Order[b], C26_Value(b))

\* C26 as stated: for every ordered pair of distinct placeholders a and b,
\* the token of b inside the value of a is replaced by the value of b.
C26_EveryOrderedPair ==
    pc = "child" =>
        \A a, b \in 1..6 : (a # b /\ C26_Refers(a, b)) => C26_Resubstituted(a, b)

\* C26, amended: the token of b inside the value of a is replaced by the
\* value of b for the pairs in which a comes before b in the order %u, %h,
\* %p, %r, %n, %c, and is left as it is for the pairs in which a comes after
\* b.
C26_LaterPlaceholders ==
    pc = "child" =>
        \A a, b \in 1..6 :
            (a # b /\ C26_Refers(a, b)) =>
                IF a < b THEN C26_Resubstituted(a, b)
                ELSE \A i \in 1..Len(child) :
                        FieldsScan(sshCommandPattern, "", <<>>)[i] = C26_Order[a]
                            => child[i] = C26_Value(a)

\* the pattern %h for a host whose HostName is h%p: the port took the place
\* of %p
C26_Witness ==
    /\ pc = "child"
    /\ sshCommandPattern = "%h"
    /\ C26_Item.HostName = "h%p"
    /\ child = <<"h22">>


-----------------------------------------------------------------------------
(* MultiFocusFlex (src/unnamed/part_006): the flex that hands a key event  *)
(* to each of its items that takes the focus.                              *)

\* the primitives the root command has: the search bar and the hosts table
FlexPrimitives == {"searchBar", "table"}

\* lines 38-41: an entry of f.items; ref stands for the address of the
\* MultiFocusFlexItem that AddItem allocates, the number of the call
FlexItem(p, focus, ref) == [Primitive |-> p, Focus |-> focus, ref |-> ref]

\* the test of an entry with every entry taken to have the focus
HandlesKeysAlways(item) == TRUE

\* line 28: the test InputHandler makes on an entry
HandlesKeys(item) == item.Focus

\* lines 27-33: the loop of InputHandler, as the handler calls it makes for
\* the event numbered ev; the handler of a primitive is never nil
RECURSIVE HandlerCalls(_, _)
HandlerCalls(its, ev) ==
    IF Len(its) = 0 THEN <<>>
    ELSE (IF HandlesKeys(Head(its))
          THEN <<[event |-> ev, ref |-> Head(its).ref, Primitive |-> Head(its).Primitive]>>
          ELSE <<>>) \o HandlerCalls(Tail(its), ev)

\* line 50: append(f.items[:index], f.items[index+1:]...), index from 0
RemoveAt(its, index) == SubSeq(its, 1, index) \o SubSeq(its, index + 2, Len(its))

\* lines 48-52: the loop of RemoveItem, from the last index down to 0
RECURSIVE RemoveLoop(_, _, _)
RemoveLoop(its, index, p) ==
    IF index < 0 THEN its
    ELSE IF its[index + 1].Primitive = p
    THEN RemoveLoop(RemoveAt(its, index), index - 1, p)
    ELSE RemoveLoop(its, index - 1, p)

\* lines 37-45
AddItem(item, focus) ==
    /\ pc = "flex"
    /\ Len(flexCalls) < MaxCalls
    /\ flexItems' = Append(flexItems, FlexItem(item, focus, Len(flexCalls) + 1))
    /\ flexCalls' = Append(flexCalls, [op |-> "AddItem", p |-> item, focus |-> focus])
    /\ UNCHANGED <<delivered, sharedVars, termuiVars, tviewVars, sessionVars, startupVars>>

\* lines 47-56
RemoveItem(p) ==
    /\ pc = "flex"
    /\ Len(flexCalls) < MaxCalls
    /\ flexItems' = RemoveLoop(flexItems, Len(flexItems) - 1, p)
    /\ flexCalls' = Append(flexCalls, [op |-> "RemoveItem", p |-> p, focus |-> FALSE])
    /\ UNCHANGED <<delivered, sharedVars, termuiVars, tviewVars, sessionVars, startupVars>>

\* lines 25-35: the handler the flex returns, called with a key event
InputHandler ==
    /\ pc = "flex"
    /\ Len(flexCalls) < MaxCalls
    /\ delivered' = delivered \o HandlerCalls(flexItems, Len(flexCalls) + 1)
    /\ flexCalls' = Append(flexCalls, [op |-> "InputHandler", p |-> "", focus |-> FALSE])
    /\ UNCHANGED <<flexItems, sharedVars, termuiVars, tviewVars, sessionVars, startupVars>>

FlexAddItem == \E item \in FlexPrimitives, focus \in BOOLEAN : AddItem(item, focus)

FlexRemoveItem == \E p \in FlexPrimitives : RemoveItem(p)

\* lines 18-23: NewMultiFlex
InitFlex ==
    /\ NoFlex
    /\ hosts = <<>>
    /\ displayFullProxy = FALSE
    /\ pc = "flex"
    /\ child = <<>>
    /\ terminal = "ui"
    /\ NoTermui
    /\ NoTview
    /\ NoSession
    /\ NoStartup

NextFlex ==
    \/ FlexAddItem
    \/ FlexRemoveItem
    \/ InputHandler

SpecFlex == InitFlex /\ [][NextFlex]_vars

-----------------------------------------------------------------------------
(* Properties of ParseHosts, of the filters and of the choice of the host. *)

\* C31: the name ParseHosts gives an entry is its patterns joined by single
\* spaces, less one pair of double quotes when the joined text starts and
\* ends with one, and the joined text unchanged otherwise.
C31_ParseHostsRule ==
    \A i \in 1..Len(hosts) : ParseHosts(hosts[i].Host) = C10_Expected(hosts[i].Host)


\* the entries that have an item in the list, in the order of the file
C34_Retained == SelectSeq(hosts, LAMBDA h : C10_Expected(h.Host) # "*")

\* C34: the host that Enter hands on is the entry the selected item was
\* made from, also when other entries have its name or its patterns.
C34_SelectedHostLaunched ==
    (pc = "list" /\ Len(items) > 0 /\ Len(items) = Len(C34_Retained)) =>
        OnSelectHost(hosts, items[cursor + 1]) = C34_Retained[cursor + 1]


\* the name and the target a row shows, without the blank put before a cell
C32_DisplayName(row) == Tail(row[1])
C32_Target(row) == Tail(row[3])

C32_Visible(row) ==
    \/ IsSubstring(ToLower(search), ToLower(C32_DisplayName(row)))
    \/ IsSubstring(ToLower(search), ToLower(C32_Target(row)))

\* C32: while the search is not empty, the rows on screen are the rows whose
\* name or target contains the search, compared in lower case.
C32_SubstringFilter ==
    (pc = "loop" /\ search # "") => Tail(tableRows) = SelectSeq(rows, C32_Visible)

\* C36: Backspace on an empty search leaves the search and the rows on screen
\* as they are, and when Ctrl-U or Backspace empties the search the rows on
\* screen are all the rows built at startup, in their order.
C36_EditRoundTrip ==
    /\ [][(EvBackspace /\ search = "") => (search' = "" /\ tableRows' = tableRows)]_vars
    /\ [][((EvCtrlU \/ EvBackspace) /\ search' = "")
          => Tail(tableRows') = BuildRows(hosts, displayFullProxy)]_vars


\* the rows the filter rule gives for a query: the hosts with a target whose
\* lowercased name or lowercased displayed target holds the query
C33_Passes(host, query) ==
    /\ host.HostName # "" \/ host.ProxyCommand # ""
    /\ \/ query = ""
       \/ IsSubstring(query, ToLower(host.Name))
       \/ IsSubstring(query, ToLower(C6_Target(host)))

C33_Rule(query) ==
    LET passing == SelectSeq(Hosts, LAMBDA h : C33_Passes(h, query))
    IN  [k \in 1..Len(passing) |-> C6_Row(passing[k])]

\* C33: once the table is built the stored query is in lower case and the
\* rows shown are the rows of the filter rule for it, and every Filter(text)
\* leaves the lower case of text stored and its rows shown.
C33_FilterState ==
    /\ [](Constructed => (filter = ToLower(filter) /\ Tail(cells) = C33_Rule(filter)))
    /\ [][\A text \in TviewTexts :
            Filter(text) => (/\ filter' = ToLower(text)
                             /\ Tail(cells') = C33_Rule(ToLower(text)))]_vars

\* the text B was typed: b is stored and the quoted Web is shown
C33_Witness ==
    /\ pc = "loop"
    /\ filter = "b"
    /\ Len(cells) = 2
    /\ cells[2][1] = " Web "


\* C35: every host NewHostsTable keeps has a host name or a proxy command,
\* and under the empty query the table shows one row for each of them, in
\* the order of the host list.
C35_RetainedDisplayable ==
    (Constructed /\ filter = "") =>
        /\ \A k \in 1..Len(Hosts) : Hosts[k].HostName # "" \/ Hosts[k].ProxyCommand # ""
        /\ Len(cells) = Len(Hosts) + 1
        /\ \A k \in 1..Len(Hosts) :
               /\ GetCellText(cells, k, 0) = padding(Hosts[k].Name)
               /\ GetCellText(cells, k, 1) = padding(Hosts[k].User)
               /\ GetCellText(cells, k, 3) = padding(Hosts[k].Port)

\* an entry with neither HostName nor ProxyCommand whose name is a DNS name
\* is kept with its name as host name, next to an entry with a proxy command
C35_Witness ==
    /\ Constructed
    /\ filter = ""
    /\ Len(Hosts) = 2
    /\ Hosts[1].Name = "a.io"
    /\ Hosts[1].HostName = "a.io"
    /\ Hosts[2].HostName = ""
    /\ Hosts[2].ProxyCommand # ""
    /\ Len(cells) = 3


\* the entries that call number ev finds in the flex: those added with the
\* focus by an earlier call and not removed since, in the order of the calls
C37_Receivers(ev) ==
    SelectSeq([k \in 1..(ev - 1) |-> k],
              LAMBDA k : /\ flexCalls[k].op = "AddItem"
                         /\ flexCalls[k].focus
                         /\ \A j \in (k + 1)..(ev - 1) :
                                ~(flexCalls[j].op = "RemoveItem"
                                  /\ flexCalls[j].p = flexCalls[k].p))

C37_Deliveries(ev) ==
    [i \in 1..Len(C37_Receivers(ev)) |->
        [event |-> ev, ref |-> C37_Receivers(ev)[i],
         Primitive |-> flexCalls[C37_Receivers(ev)[i]].p]]

RECURSIVE C37_Expected(_)
C37_Expected(n) ==
    IF n = 0 THEN <<>>
    ELSE C37_Expected(n - 1)
         \o (IF flexCalls[n].op = "InputHandler" THEN C37_Deliveries(n) ELSE <<>>)

\* C37: the handler calls made are, for each key event in turn, one call for
\* each item added with the focus and not removed before the event, in the
\* order the items were added, and no other call.
C37_FlexDispatch == delivered = C37_Expected(Len(flexCalls))

\* the flex of the root command: the search bar is handed the key before
\* the hosts table
C37_Witness ==
    /\ Len(flexCalls) = 3
    /\ flexCalls[1] = [op |-> "AddItem", p |-> "searchBar", focus |-> TRUE]
    /\ flexCalls[2] = [op |-> "AddItem", p |-> "table", focus |-> TRUE]
    /\ flexCalls[3].op = "InputHandler"
    /\ Len(delivered) = 2
    /\ delivered[1].Primitive = "searchBar"
    /\ delivered[2].Primitive = "table"

=============================================================================
